---- MODULE Spec2Model ----
(***************************************************************************)
(* The JAR (Jiu-Jitsu Attribute Rating) engine and the page that drives    *)
(* it: ConfigManager and JARCalculator (src/src/js/config.js),             *)
(* PractitionerData and FactorResults (src/src/js/types.js),               *)
(* PractitionerForm.handleFormUpdate (src/src/js/forms.js), JARApp         *)
(* (src/src/main.js, the class of lines 132-329) and ProfileGenerator      *)
(* (profiles.js, kept as src/unnamed/part_002).                            *)
(*                                                                         *)
(* Numbers.  Ages, weights, percentiles, session counts and belt scores are *)
(* plain integers.  Multipliers and scores are JavaScript doubles; they are *)
(* kept here in fixed point, Scale units to 1.0, and every product or      *)
(* quotient is rounded to the nearest unit.  Scale is a multiple of 750, so *)
(* that (lbs / 15) * adjustment is exact for whole pounds under the default *)
(* tiers.  NaN and undefined are two values outside the numeric range, and  *)
(* the arithmetic and the comparisons treat them as JavaScript does.        *)
(***************************************************************************)
EXTENDS Integers, Sequences, FiniteSets, TLC

VARIABLES
    mgrConfig,      \* calculator.configManager.config, what getConfig() returns
    calcConfig,     \* calculator.config, the reference taken by the constructor
    storedConfig,   \* localStorage['jar-config']
    practitioners,  \* JARApp.practitioners: side -> PractitionerData or Null
    currentData,    \* PractitionerForm.currentData of each side's form
    results,        \* what each side's results container displays
    chartData,      \* the data last handed to the radar chart
    errorMessage    \* the validation error each form displays

vars == <<mgrConfig, calcConfig, storedConfig, practitioners, currentData,
          results, chartData, errorMessage>>

Sides == {"a", "b"}

OtherSide(id) == IF id = "a" THEN "b" ELSE "a"

-----------------------------------------------------------------------------
(* Numbers *)

Scale == 15 * 1000

One == Scale

\* c hundredths, as a multiplier: Pct(103) is 1.03
Pct(c) == c * (Scale \div 100)

NaN == 0 - 1000000000

Undefined == 0 - 1000000001

Null == [null |-> TRUE]

\* what an operation yields when it throws a TypeError (a property read on
\* undefined) instead of returning
TypeError == 0 - 1000000002

\* ToNumber: undefined becomes NaN
ToNumber(x) == IF x = Undefined THEN NaN ELSE x

IsNaN(x) == ToNumber(x) = NaN

\* the relational operators: any comparison with NaN is false
Lt(x, y) == ~IsNaN(x) /\ ~IsNaN(y) /\ x < y

Le(x, y) == ~IsNaN(x) /\ ~IsNaN(y) /\ x <= y

Gt(x, y) == ~IsNaN(x) /\ ~IsNaN(y) /\ x > y

Ge(x, y) == ~IsNaN(x) /\ ~IsNaN(y) /\ x >= y

Plus(x, y) == IF IsNaN(x) \/ IsNaN(y) THEN NaN ELSE x + y

Minus(x, y) == IF IsNaN(x) \/ IsNaN(y) THEN NaN ELSE x - y

MathAbs(x) == IF IsNaN(x) THEN NaN ELSE IF x < 0 THEN 0 - x ELSE x

MathMin(x, y) == IF IsNaN(x) \/ IsNaN(y) THEN NaN ELSE IF x < y THEN x ELSE y

\* n / d for d > 0, rounded to the nearest integer (halves away from zero)
RoundDiv(n, d) ==
    IF n >= 0 THEN (2 * n + d) \div (2 * d)
    ELSE 0 - ((2 * (0 - n) + d) \div (2 * d))

\* (lbs / increment) * adjustment: pounds and increment are plain numbers,
\* the adjustment and the result are multipliers
PerIncrement(lbs, increment, adjustment) ==
    IF IsNaN(lbs) \/ IsNaN(increment) \/ IsNaN(adjustment) THEN NaN
    ELSE RoundDiv(lbs * adjustment, increment)

\* x * y, x a plain number and y a multiplier (or the reverse)
IntTimes(x, y) == IF IsNaN(x) \/ IsNaN(y) THEN NaN ELSE x * y

\* |x| * |y| / Scale for fixed-point x, y >= 0, rounded, without leaving 32 bits
FixTimesAbs(x, y) ==
    (x \div Scale) * y + RoundDiv((x % Scale) * y, Scale)

\* x * y of two fixed-point numbers
FixTimes(x, y) ==
    IF IsNaN(x) \/ IsNaN(y) THEN NaN
    ELSE IF (x < 0) = (y < 0) THEN FixTimesAbs(MathAbs(x), MathAbs(y))
    ELSE 0 - FixTimesAbs(MathAbs(x), MathAbs(y))

\* 0.88 ^ (k / 10) for k = 0 .. 65, entry k + 1, in units of 1 / Scale
PowTable ==
    << 15000, 14809, 14621, 14436, 14252, 14071, 13893, 13716, 13542, 13370,
       13200, 13032, 12867, 12703, 12542, 12383, 12225, 12070, 11917, 11765,
       11616, 11468, 11323, 11179, 11037, 10897, 10758, 10622, 10487, 10354,
       10222, 10092,  9964,  9837,  9713,  9589,  9467,  9347,  9228,  9111,
        8995,  8881,  8768,  8657,  8547,  8438,  8331,  8225,  8121,  8018,
        7916,  7815,  7716,  7618,  7521,  7426,  7332,  7238,  7146,  7056,
        6966,  6878,  6790,  6704,  6619,  6535 >>

\* Math.pow(base, tenths / 10.0).  The fractional powers are tabulated for
\* the base 0.88 of the default decline rate; base 1.0 has every power 1.0.
\* calculateAF calls it with tenths >= 0 only.
MathPowTenths(base, tenths) ==
    IF IsNaN(base) \/ IsNaN(tenths) THEN NaN
    ELSE IF tenths = 0 \/ base = One THEN One
    ELSE PowTable[tenths + 1]

-----------------------------------------------------------------------------
(* types.js *)

Belts == {"White", "Blue", "Purple", "Brown", "Black"}

CompetitionLevels ==
    {"None", "Limited Local", "Regular Regional", "National/International"}

MinAge == 16

MaxAge == 90

MinWeight == 80

MaxWeight == 400

MinFitness == 0

MaxFitness == 100

MinSessions == 0

MaxSessions == 14

NoError == [none |-> TRUE]

\* PractitionerData.validate: the error thrown, or NoError
validate(p) ==
    IF Lt(p.ageYears, MinAge) \/ Gt(p.ageYears, MaxAge)
    THEN [field |-> "Age", got |-> p.ageYears]
    ELSE IF Lt(p.weightLbs, MinWeight) \/ Gt(p.weightLbs, MaxWeight)
    THEN [field |-> "Weight", got |-> p.weightLbs]
    ELSE IF Lt(p.standardizedFitnessTestPercentileEstimate, MinFitness)
            \/ Gt(p.standardizedFitnessTestPercentileEstimate, MaxFitness)
    THEN [field |-> "Fitness percentile",
          got |-> p.standardizedFitnessTestPercentileEstimate]
    ELSE IF Lt(p.bjjTrainingSessionsPerWeek, MinSessions)
            \/ Gt(p.bjjTrainingSessionsPerWeek, MaxSessions)
    THEN [field |-> "Training sessions", got |-> p.bjjTrainingSessionsPerWeek]
    ELSE NoError

\* new PractitionerData(data): the fields are copied, then validated
PractitionerData(data) ==
    [name |-> data.name,
     bjjBeltRank |-> data.bjjBeltRank,
     ageYears |-> data.ageYears,
     weightLbs |-> data.weightLbs,
     standardizedFitnessTestPercentileEstimate |->
         data.standardizedFitnessTestPercentileEstimate,
     otherGrapplingArtExperience |-> data.otherGrapplingArtExperience,
     bjjTrainingSessionsPerWeek |-> data.bjjTrainingSessionsPerWeek,
     bjjCompetitionExperienceLevel |-> data.bjjCompetitionExperienceLevel,
     practitionerId |-> data.practitionerId]

\* new FactorResults(brs, af, wf, acf, ref, tff, cef)
FactorResults(brs, af, wf, acf, ref, tff, cef) ==
    [brs |-> brs, af |-> af, wf |-> wf, acf |-> acf, ref |-> ref,
     tff |-> tff, cef |-> cef]

\* calculateHandicappedScore with the last factor left out of the product
calculateHandicappedScoreNoCef(f) ==
    FixTimes(FixTimes(FixTimes(FixTimes(
        IntTimes(ToNumber(f.brs), f.af), f.wf), f.acf), f.ref), f.tff)

\* FactorResults.calculateHandicappedScore: the product, left to right
calculateHandicappedScore(f) ==
    FixTimes(FixTimes(FixTimes(FixTimes(FixTimes(
        IntTimes(ToNumber(f.brs), f.af), f.wf), f.acf), f.ref), f.tff), f.cef)

-----------------------------------------------------------------------------
(* config.js: ConfigManager *)

Missing == [missing |-> TRUE]

WrestlingLevels ==
    <<"None", "High School", "High School State Qualifier", "College",
      "College D1", "International/Olympic">>

JudoLevels ==
    <<"None", "Local", "Regional", "National", "International", "Olympic">>

OtherGrapplingLevels ==
    <<"None", "Recreational (<1 year)", "Club Level (1-3 years)",
      "Regional Competition", "National Competition",
      "International Competition">>

\* the key `${artName}_${experienceLevel}`
MappingKey(artName, experienceLevel) == artName \o "_" \o experienceLevel

\* art_experience_level_mapping: each art's levels in order, level ids 0..5
DefaultArtMapping ==
    LET entries ==
            {<<"Wrestling", WrestlingLevels[i], i - 1>> : i \in 1..6}
            \cup {<<"Judo", JudoLevels[i], i - 1>> : i \in 1..6}
            \cup {<<"Sambo", OtherGrapplingLevels[i], i - 1>> : i \in 1..6}
            \cup {<<"Other", OtherGrapplingLevels[i], i - 1>> : i \in 1..6}
            \cup {<<"None", "None", 0>>}
    IN  [key \in {MappingKey(e[1], e[2]) : e \in entries} |->
            (CHOOSE e \in entries : MappingKey(e[1], e[2]) = key)[3]]

\* profile_dynamics_config.implication_statements
DefaultStatements ==
    ("BRS_high" :>
        "Deep BJJ-specific technical knowledge, extensive submission arsenal, advanced defensive/offensive positional understanding."
     @@ "BRS_low" :>
        "Limited BJJ-specific submission knowledge (offense and defense) and nuanced BJJ positional play."
     @@ "REF_high_wrestling_judo" :>
        "Strong foundational grappling from another discipline (e.g., powerful takedowns, dominant top control, excellent scrambles, high grappling intensity)."
     @@ "ACF_high" :>
        "Significant athletic advantage (e.g., superior strength, speed, explosiveness, or endurance)."
     @@ "WF_high" :>
        "Substantial size/weight advantage; can apply significant pressure, more difficult to move or sweep."
     @@ "AF_low" :>
        "Age-related physical limitations; may face challenges with opponent's pace, explosiveness, recovery, and prolonged high-intensity exchanges."
     @@ "WF_low" :>
        "Size/weight disadvantage; may be vulnerable to being overpowered, struggle to escape bottom positions under pressure.")

\* ConfigManager.defaultConfig
DefaultConfig ==
    [belt_rank_scores |->
        ("White" :> 100 @@ "Blue" :> 200 @@ "Purple" :> 350
         @@ "Brown" :> 550 @@ "Black" :> 800),
     age_factor_config |->
        [peak_age_years |-> 25,
         youthful_factor_multiplier |-> Pct(103),
         power_decline_rate_per_decade |-> Pct(12)],
     weight_factor_config |->
        [increment_lbs |-> 15,
         thresholds_bonuses_penalties |->
            << [diff_max_lbs |-> 15, adjustment |-> Pct(6)],
               [diff_max_lbs |-> 30, adjustment |-> Pct(8)],
               [diff_max_lbs |-> 45, adjustment |-> Pct(10)] >>],
     acf_config |->
        [levels |->
            << [level_id |-> 1, multiplier |-> Pct(90)],
               [level_id |-> 2, multiplier |-> Pct(100)],
               [level_id |-> 3, multiplier |-> Pct(107)],
               [level_id |-> 4, multiplier |-> Pct(115)],
               [level_id |-> 5, multiplier |-> Pct(125)] >>],
     ref_config |->
        [levels |->
            << [level_id |-> 0, multiplier |-> Pct(100)],
               [level_id |-> 1, multiplier |-> Pct(103)],
               [level_id |-> 2, multiplier |-> Pct(107)],
               [level_id |-> 3, multiplier |-> Pct(112)],
               [level_id |-> 4, multiplier |-> Pct(122)],
               [level_id |-> 5, multiplier |-> Pct(138)] >>,
         art_experience_level_mapping |-> DefaultArtMapping],
     tff_config |->
        [levels |->
            << [sessions_min |-> 0, sessions_max |-> 1, multiplier |-> Pct(95)],
               [sessions_min |-> 2, sessions_max |-> 3, multiplier |-> Pct(100)],
               [sessions_min |-> 4, sessions_max |-> 5, multiplier |-> Pct(105)],
               [sessions_min |-> 6, sessions_max |-> 100,
                multiplier |-> Pct(110)] >>],
     cef_config |->
        [levels |->
            << [level_id |-> 0, multiplier |-> Pct(100)],
               [level_id |-> 1, multiplier |-> Pct(103)],
               [level_id |-> 2, multiplier |-> Pct(108)],
               [level_id |-> 3, multiplier |-> Pct(112)] >>,
         competition_level_mapping |->
            ("None" :> 0 @@ "Limited Local" :> 1 @@ "Regular Regional" :> 2
             @@ "National/International" :> 3)],
     profile_dynamics_config |->
        [significant_multiplier_threshold_high |-> Pct(110),
         significant_multiplier_threshold_low |-> Pct(90),
         implication_statements |-> DefaultStatements,
         control_implication_factors |->
            <<"REF_high_wrestling_judo", "ACF_high", "WF_high">>,
         submission_implication_factors_offense |-> <<"BRS_high">>,
         submission_implication_factors_defense |-> <<"BRS_high">>]]

\* ConfigManager.loadConfig: a copy of the default configuration
loadConfig == DefaultConfig

\* ConfigManager.getConfig on the calculator's manager
getConfig == mgrConfig

SubTables ==
    {"belt_rank_scores", "age_factor_config", "weight_factor_config",
     "acf_config", "ref_config", "tff_config", "cef_config",
     "profile_dynamics_config"}

\* the sub-tables a configuration lacks
MissingSubTables(cfg) == {t \in SubTables : cfg[t] = Missing}

-----------------------------------------------------------------------------
(* config.js: JARCalculator *)

\* calculateBRS: belt_rank_scores[bjjBeltRank], undefined for an unknown key
calculateBRS(cfg, practitioner) ==
    IF cfg.belt_rank_scores = Missing THEN TypeError
    ELSE IF practitioner.bjjBeltRank \in DOMAIN cfg.belt_rank_scores
    THEN cfg.belt_rank_scores[practitioner.bjjBeltRank]
    ELSE Undefined

\* calculateAF with the peak age itself counted as youthful
calculateAFPeakYouthful(cfg, practitioner) ==
    LET ageConfig == cfg.age_factor_config
        peakAge == ageConfig.peak_age_years
    IN  IF Le(practitioner.ageYears, peakAge)
        THEN ageConfig.youthful_factor_multiplier
        ELSE MathPowTenths(Minus(One, ageConfig.power_decline_rate_per_decade),
                           Minus(practitioner.ageYears, peakAge))

\* calculateAF with the decades past the peak taken as a whole number
calculateAFWholeDecades(cfg, practitioner) ==
    LET ageConfig == cfg.age_factor_config
        peakAge == ageConfig.peak_age_years
    IN  IF Lt(practitioner.ageYears, peakAge)
        THEN ageConfig.youthful_factor_multiplier
        ELSE MathPowTenths(
                Minus(One, ageConfig.power_decline_rate_per_decade),
                IF IsNaN(practitioner.ageYears) THEN NaN
                ELSE 10 * ((practitioner.ageYears - peakAge) \div 10))

calculateAF(cfg, practitioner) ==
    LET ageConfig == cfg.age_factor_config
        peakAge == ageConfig.peak_age_years
    IN  IF ageConfig = Missing THEN TypeError
        ELSE IF Lt(practitioner.ageYears, peakAge)
        THEN ageConfig.youthful_factor_multiplier
        ELSE MathPowTenths(Minus(One, ageConfig.power_decline_rate_per_decade),
                           Minus(practitioner.ageYears, peakAge))

\* TierLoop with every tier taken to cover its whole diff_max_lbs
RECURSIVE TierLoopWholeTier(_, _, _)
TierLoopWholeTier(weightConfig, i, st) ==
    IF i > Len(weightConfig.thresholds_bonuses_penalties) THEN st
    ELSE
        LET tier == weightConfig.thresholds_bonuses_penalties[i]
            lbsToConsider == MathMin(st.remainingDiff, tier.diff_max_lbs)
        IN  IF Le(lbsToConsider, 0) THEN st
            ELSE
                LET next ==
                        [totalAdjustment |->
                            Plus(st.totalAdjustment,
                                 PerIncrement(lbsToConsider,
                                              weightConfig.increment_lbs,
                                              tier.adjustment)),
                         remainingDiff |->
                            Minus(st.remainingDiff, lbsToConsider),
                         lastTierMaxLbs |-> tier.diff_max_lbs,
                         highestTierAdjustment |-> tier.adjustment]
                IN  IF Le(next.remainingDiff, 0) THEN next
                    ELSE TierLoopWholeTier(weightConfig, i + 1, next)

\* the loop over the tiers of calculateWF, from tier i on; st carries
\* totalAdjustment, remainingDiff, lastTierMaxLbs, highestTierAdjustment
RECURSIVE TierLoop(_, _, _)
TierLoop(weightConfig, i, st) ==
    IF i > Len(weightConfig.thresholds_bonuses_penalties) THEN st
    ELSE
        LET tier == weightConfig.thresholds_bonuses_penalties[i]
            lbsCoveredByThisTier == tier.diff_max_lbs - st.lastTierMaxLbs
            lbsToConsider == MathMin(st.remainingDiff, lbsCoveredByThisTier)
        IN  IF Le(lbsToConsider, 0) THEN st
            ELSE
                LET tierAdjustment ==
                        PerIncrement(lbsToConsider, weightConfig.increment_lbs,
                                     tier.adjustment)
                    next ==
                        [totalAdjustment |->
                            Plus(st.totalAdjustment, tierAdjustment),
                         remainingDiff |->
                            Minus(st.remainingDiff, lbsToConsider),
                         lastTierMaxLbs |-> tier.diff_max_lbs,
                         highestTierAdjustment |-> tier.adjustment]
                IN  IF Le(next.remainingDiff, 0) THEN next
                    ELSE TierLoop(weightConfig, i + 1, next)

\* the adjustment stopping at the end of the last tier: what is left of the
\* difference after the loop is dropped
totalAdjustmentCapped(weightConfig, weightDifference) ==
    TierLoop(weightConfig, 1,
             [totalAdjustment |-> 0,
              remainingDiff |-> weightDifference,
              lastTierMaxLbs |-> 0,
              highestTierAdjustment |-> 0]).totalAdjustment

\* lines 187-217 of calculateWF: the adjustment for a weight difference
totalAdjustment(weightConfig, weightDifference) ==
    LET st == TierLoop(weightConfig, 1,
                       [totalAdjustment |-> 0,
                        remainingDiff |-> weightDifference,
                        lastTierMaxLbs |-> 0,
                        highestTierAdjustment |-> 0])
    IN  IF Gt(st.remainingDiff, 0) /\ Gt(st.highestTierAdjustment, 0)
        THEN Plus(st.totalAdjustment,
                  PerIncrement(st.remainingDiff, weightConfig.increment_lbs,
                               st.highestTierAdjustment))
        ELSE st.totalAdjustment

\* calculateWF with the comparison of the two weights turned round
calculateWFInverted(cfg, practitioner, comparisonPractitioner) ==
    IF comparisonPractitioner = Null THEN One
    ELSE
        LET weightConfig == cfg.weight_factor_config
            weightDifference ==
                MathAbs(Minus(practitioner.weightLbs,
                              comparisonPractitioner.weightLbs))
        IN  IF Le(weightDifference, 0) THEN One
            ELSE IF Lt(practitioner.weightLbs, comparisonPractitioner.weightLbs)
            THEN Plus(One, totalAdjustment(weightConfig, weightDifference))
            ELSE Minus(One, totalAdjustment(weightConfig, weightDifference))

\* calculateWF without its two early returns: an absent comparison has no
\* weight to read
calculateWFNoNeutral(cfg, practitioner, comparisonPractitioner) ==
    LET weightConfig == cfg.weight_factor_config
        otherWeight ==
            IF comparisonPractitioner = Null THEN Undefined
            ELSE comparisonPractitioner.weightLbs
        weightDifference == MathAbs(Minus(practitioner.weightLbs, otherWeight))
    IN  IF Gt(practitioner.weightLbs, otherWeight)
        THEN Plus(One, totalAdjustment(weightConfig, weightDifference))
        ELSE Minus(One, totalAdjustment(weightConfig, weightDifference))

calculateWF(cfg, practitioner, comparisonPractitioner) ==
    IF comparisonPractitioner = Null THEN One
    ELSE
        LET weightConfig == cfg.weight_factor_config
            weightDifference ==
                MathAbs(Minus(practitioner.weightLbs,
                              comparisonPractitioner.weightLbs))
            isHeavier ==
                Gt(practitioner.weightLbs, comparisonPractitioner.weightLbs)
        IN  IF Le(weightDifference, 0) THEN One
            ELSE IF weightConfig = Missing THEN TypeError
            ELSE IF isHeavier
            THEN Plus(One, totalAdjustment(weightConfig, weightDifference))
            ELSE Minus(One, totalAdjustment(weightConfig, weightDifference))

\* InAcfRange with the ranges as the level descriptions word them: 30th-60th,
\* 61st-80th, 81st-95th, above 95th
InAcfRangeAsDescribed(levelId, fitnessPercentile) ==
    \/ levelId = 1 /\ Lt(fitnessPercentile, 30)
    \/ levelId = 2 /\ Ge(fitnessPercentile, 30) /\ Le(fitnessPercentile, 60)
    \/ levelId = 3 /\ Gt(fitnessPercentile, 60) /\ Le(fitnessPercentile, 80)
    \/ levelId = 4 /\ Gt(fitnessPercentile, 80) /\ Le(fitnessPercentile, 95)
    \/ levelId = 5 /\ Gt(fitnessPercentile, 95)

\* the percentile range the code fixes for each level_id
InAcfRange(levelId, fitnessPercentile) ==
    \/ levelId = 1 /\ Lt(fitnessPercentile, 30)
    \/ levelId = 2 /\ Ge(fitnessPercentile, 30) /\ Lt(fitnessPercentile, 60)
    \/ levelId = 3 /\ Ge(fitnessPercentile, 60) /\ Lt(fitnessPercentile, 80)
    \/ levelId = 4 /\ Ge(fitnessPercentile, 80) /\ Lt(fitnessPercentile, 95)
    \/ levelId = 5 /\ Ge(fitnessPercentile, 95)

calculateACF(cfg, practitioner) ==
    LET levels == cfg.acf_config.levels
        fitnessPercentile ==
            practitioner.standardizedFitnessTestPercentileEstimate
        hits == {i \in 1..Len(levels) :
                    InAcfRange(levels[i].level_id, fitnessPercentile)}
    IN  IF cfg.acf_config = Missing THEN TypeError
        ELSE IF hits = {} THEN One
        ELSE levels[CHOOSE i \in hits : \A j \in hits : i <= j].multiplier

\* levels[0].multiplier: a TypeError when the list has no first level
LevelZero(levels) ==
    IF Len(levels) = 0 THEN TypeError ELSE levels[1].multiplier

\* the multiplier of the first level with this level_id, or the fallback
LevelMultiplier(levels, levelId, fallback) ==
    LET hits == {i \in 1..Len(levels) : levels[i].level_id = levelId}
    IN  IF hits = {} THEN fallback
        ELSE levels[CHOOSE i \in hits : \A j \in hits : i <= j].multiplier

\* calculateREF taking the last listed experience, not the first
calculateREFLastEntry(cfg, practitioner) ==
    LET refConfig == cfg.ref_config
        arts == practitioner.otherGrapplingArtExperience
    IN  IF refConfig = Missing THEN TypeError
        ELSE IF Len(arts) = 0 THEN LevelZero(refConfig.levels)
        ELSE
            LET experience == arts[Len(arts)]
                mappingKey ==
                    MappingKey(experience.artName, experience.experienceLevel)
            IN  IF mappingKey \in DOMAIN refConfig.art_experience_level_mapping
                THEN LevelMultiplier(
                        refConfig.levels,
                        refConfig.art_experience_level_mapping[mappingKey],
                        LevelZero(refConfig.levels))
                ELSE LevelZero(refConfig.levels)

calculateREF(cfg, practitioner) ==
    LET refConfig == cfg.ref_config
        arts == practitioner.otherGrapplingArtExperience
    IN  IF refConfig = Missing THEN TypeError
        ELSE IF Len(arts) = 0 THEN LevelZero(refConfig.levels)
        ELSE
            LET experience == arts[1]
                mappingKey ==
                    MappingKey(experience.artName, experience.experienceLevel)
            IN  IF mappingKey \in DOMAIN refConfig.art_experience_level_mapping
                THEN LevelMultiplier(
                        refConfig.levels,
                        refConfig.art_experience_level_mapping[mappingKey],
                        LevelZero(refConfig.levels))
                ELSE LevelZero(refConfig.levels)

\* calculateTFF with sessions_max taken as an exclusive bound
calculateTFFExclusiveMax(cfg, practitioner) ==
    LET levels == cfg.tff_config.levels
        sessions == practitioner.bjjTrainingSessionsPerWeek
        hits == {i \in 1..Len(levels) :
                    Ge(sessions, levels[i].sessions_min)
                    /\ Lt(sessions, levels[i].sessions_max)}
    IN  IF cfg.tff_config = Missing THEN TypeError
        ELSE IF hits = {} THEN One
        ELSE levels[CHOOSE i \in hits : \A j \in hits : i <= j].multiplier

calculateTFF(cfg, practitioner) ==
    LET levels == cfg.tff_config.levels
        sessions == practitioner.bjjTrainingSessionsPerWeek
        hits == {i \in 1..Len(levels) :
                    Ge(sessions, levels[i].sessions_min)
                    /\ Le(sessions, levels[i].sessions_max)}
    IN  IF cfg.tff_config = Missing THEN TypeError
        ELSE IF hits = {} THEN One
        ELSE levels[CHOOSE i \in hits : \A j \in hits : i <= j].multiplier

calculateCEF(cfg, practitioner) ==
    LET cefConfig == cfg.cef_config
        compLevel == practitioner.bjjCompetitionExperienceLevel
    IN  IF cefConfig = Missing THEN TypeError
        ELSE IF compLevel \in DOMAIN cefConfig.competition_level_mapping
        THEN LevelMultiplier(cefConfig.levels,
                             cefConfig.competition_level_mapping[compLevel],
                             LevelZero(cefConfig.levels))
        ELSE LevelZero(cefConfig.levels)

\* a TypeError among the fields stands for the call having thrown before any
\* FactorResults was constructed
calculateAllFactors(cfg, practitioner, comparisonPractitioner) ==
    FactorResults(
        calculateBRS(cfg, practitioner),
        calculateAF(cfg, practitioner),
        calculateWF(cfg, practitioner, comparisonPractitioner),
        calculateACF(cfg, practitioner),
        calculateREF(cfg, practitioner),
        calculateTFF(cfg, practitioner),
        calculateCEF(cfg, practitioner))

\* calculateAllFactors threw
Throws(factors) ==
    \E f \in {"brs", "af", "wf", "acf", "ref", "tff", "cef"} :
        factors[f] = TypeError

-----------------------------------------------------------------------------
(* profiles.js: ProfileGenerator *)

\* Significance with both thresholds exclusive
SignificanceExclusive(value, highThreshold, lowThreshold) ==
    IF Gt(value, highThreshold) THEN "high"
    ELSE IF Lt(value, lowThreshold) THEN "low"
    ELSE "neutral"

\* 'high', 'low' or 'neutral' for one multiplier
Significance(value, highThreshold, lowThreshold) ==
    IF Ge(value, highThreshold) THEN "high"
    ELSE IF Le(value, lowThreshold) THEN "low"
    ELSE "neutral"

identifySignificantFactors(cfg, factors) ==
    LET dynamicsConfig == cfg.profile_dynamics_config
        highThreshold == dynamicsConfig.significant_multiplier_threshold_high
        lowThreshold == dynamicsConfig.significant_multiplier_threshold_low
        beltScores == cfg.belt_rank_scores
        purpleThreshold ==
            IF "Purple" \in DOMAIN beltScores THEN beltScores["Purple"]
            ELSE Undefined
    IN  [af |-> Significance(factors.af, highThreshold, lowThreshold),
         wf |-> Significance(factors.wf, highThreshold, lowThreshold),
         acf |-> Significance(factors.acf, highThreshold, lowThreshold),
         ref |-> Significance(factors.ref, highThreshold, lowThreshold),
         tff |-> Significance(factors.tff, highThreshold, lowThreshold),
         cef |-> Significance(factors.cef, highThreshold, lowThreshold),
         brs |-> IF Ge(factors.brs, purpleThreshold) THEN "high" ELSE "low"]

\* ['wf', 'acf', 'ref'].some(f => factorSignificance[f] === 'high')
SomePhysicalHigh(factorSignificance) ==
    \E f \in {"wf", "acf", "ref"} : factorSignificance[f] = "high"

\* determineDominantTrait with a high base score alone making the specialist
determineDominantTraitBaseOnly(factorSignificance) ==
    IF factorSignificance.brs = "high" THEN "Technical BJJ Specialist"
    ELSE IF SomePhysicalHigh(factorSignificance)
    THEN "Physical Grappling Athlete"
    ELSE "Balanced Practitioner"

determineDominantTrait(factorSignificance) ==
    IF factorSignificance.brs = "high" /\ ~SomePhysicalHigh(factorSignificance)
    THEN "Technical BJJ Specialist"
    ELSE IF factorSignificance.brs = "low"
            /\ SomePhysicalHigh(factorSignificance)
    THEN "Physical Grappling Athlete"
    ELSE IF factorSignificance.brs = "high"
            /\ SomePhysicalHigh(factorSignificance)
    THEN "Dominant All-Rounder"
    ELSE "Balanced Practitioner"

\* determineLikelyApproach with the first rule asking that none of the weight,
\* athleticism and experience factors is high
determineLikelyApproachNoneHigh(factorSignificance) ==
    IF factorSignificance.brs = "high" /\ ~SomePhysicalHigh(factorSignificance)
    THEN "Technical & Opportunistic"
    ELSE IF SomePhysicalHigh(factorSignificance)
    THEN "Pressure & Control-Oriented"
    ELSE "Adaptable & Balanced"

\* determineLikelyApproach with the second rule looking at weight and
\* athleticism only
determineLikelyApproachPhysicalOnly(factorSignificance) ==
    IF factorSignificance.brs = "high" /\ factorSignificance.wf # "high"
    THEN "Technical & Opportunistic"
    ELSE IF \E f \in {"wf", "acf"} : factorSignificance[f] = "high"
    THEN "Pressure & Control-Oriented"
    ELSE "Adaptable & Balanced"

determineLikelyApproach(factorSignificance) ==
    IF factorSignificance.brs = "high" /\ factorSignificance.wf # "high"
    THEN "Technical & Opportunistic"
    ELSE IF SomePhysicalHigh(factorSignificance)
    THEN "Pressure & Control-Oriented"
    ELSE "Adaptable & Balanced"

\* implicationStatements[key] is there and is not the empty string
HasStatement(implicationStatements, key) ==
    key \in DOMAIN implicationStatements /\ implicationStatements[key] # ""

\* the statement pushed when the factor has the significance and the
\* configuration has the statement
Pushed(factorSignificance, factorId, significance, statements, key) ==
    IF factorSignificance[factorId] = significance
       /\ HasStatement(statements, key)
    THEN <<statements[key]>>
    ELSE << >>

\* generateKeyStrengths with the athleticism statement pushed before the
\* experience statement
generateKeyStrengthsAthleticFirst(cfg, factorSignificance) ==
    LET implicationStatements ==
            cfg.profile_dynamics_config.implication_statements
        strengths ==
            Pushed(factorSignificance, "brs", "high", implicationStatements,
                   "BRS_high")
            \o Pushed(factorSignificance, "acf", "high", implicationStatements,
                      "ACF_high")
            \o Pushed(factorSignificance, "ref", "high", implicationStatements,
                      "REF_high_wrestling_judo")
            \o Pushed(factorSignificance, "wf", "high", implicationStatements,
                      "WF_high")
    IN  IF Len(strengths) = 0
        THEN <<"Well-rounded BJJ skills with balanced attributes">>
        ELSE strengths

generateKeyStrengths(cfg, factorSignificance) ==
    LET implicationStatements ==
            cfg.profile_dynamics_config.implication_statements
        strengths ==
            Pushed(factorSignificance, "brs", "high", implicationStatements,
                   "BRS_high")
            \o Pushed(factorSignificance, "ref", "high", implicationStatements,
                      "REF_high_wrestling_judo")
            \o Pushed(factorSignificance, "acf", "high", implicationStatements,
                      "ACF_high")
            \o Pushed(factorSignificance, "wf", "high", implicationStatements,
                      "WF_high")
    IN  IF Len(strengths) = 0
        THEN <<"Well-rounded BJJ skills with balanced attributes">>
        ELSE strengths

\* generateKeyChallenges without the default statement
generateKeyChallengesNoDefault(cfg, factorSignificance) ==
    LET implicationStatements ==
            cfg.profile_dynamics_config.implication_statements
    IN  Pushed(factorSignificance, "brs", "low", implicationStatements,
               "BRS_low")
        \o Pushed(factorSignificance, "af", "low", implicationStatements,
                  "AF_low")
        \o Pushed(factorSignificance, "wf", "low", implicationStatements,
                  "WF_low")

generateKeyChallenges(cfg, factorSignificance) ==
    LET implicationStatements ==
            cfg.profile_dynamics_config.implication_statements
        challenges ==
            Pushed(factorSignificance, "brs", "low", implicationStatements,
                   "BRS_low")
            \o Pushed(factorSignificance, "af", "low", implicationStatements,
                      "AF_low")
            \o Pushed(factorSignificance, "wf", "low", implicationStatements,
                      "WF_low")
    IN  IF Len(challenges) = 0
        THEN <<"May need to adjust strategy against opponents with significant physical or technical advantages">>
        ELSE challenges

\* determineControlPotential with 'High' kept for all three factors high
determineControlPotentialAllThree(factorSignificance) ==
    LET highCount ==
            Cardinality({f \in {"ref", "wf", "acf"} :
                            factorSignificance[f] = "high"})
    IN  IF highCount >= 3 THEN "High"
        ELSE IF highCount >= 1 THEN "Medium"
        ELSE "Low"

determineControlPotential(factorSignificance) ==
    LET highCount ==
            Cardinality({f \in {"ref", "wf", "acf"} :
                            factorSignificance[f] = "high"})
    IN  IF highCount >= 2 THEN "High"
        ELSE IF highCount = 1 THEN "Medium"
        ELSE "Low"

\* determineSubmissionThreat without the look at the competition factor
determineSubmissionThreatBaseOnly(factorSignificance) ==
    IF factorSignificance.brs = "high" THEN "High" ELSE "Low"

determineSubmissionThreat(factorSignificance) ==
    IF factorSignificance.brs = "high"
    THEN IF factorSignificance.cef = "high" THEN "High" ELSE "Medium"
    ELSE "Low"

\* determineSubmissionDefense with the experience factor looked at first
determineSubmissionDefenseExperienceFirst(factorSignificance) ==
    IF factorSignificance.ref = "high" THEN "Medium"
    ELSE IF factorSignificance.brs = "high" THEN "High"
    ELSE "Low"

determineSubmissionDefense(factorSignificance) ==
    IF factorSignificance.brs = "high" THEN "High"
    ELSE IF factorSignificance.ref = "high" THEN "Medium"
    ELSE "Low"

\* generateProfile with the strengths kept in one list from call to call: each
\* profile carries on from the list last displayed for the practitioner's side
generateProfileKeepingList(cfg, practitioner, factors, handicappedScore) ==
    LET factorSignificance == identifySignificantFactors(cfg, factors)
        shown == results[practitioner.practitionerId]
        kept == IF "showProfile" \in DOMAIN shown /\ shown.showProfile
                THEN shown.profile.keyStrengths
                ELSE << >>
    IN  [dominantTrait |-> determineDominantTrait(factorSignificance),
         likelyApproach |-> determineLikelyApproach(factorSignificance),
         keyStrengths |->
            kept \o generateKeyStrengths(cfg, factorSignificance),
         keyChallenges |-> generateKeyChallenges(cfg, factorSignificance),
         controlPotential |-> determineControlPotential(factorSignificance),
         submissionOffensiveThreat |->
            determineSubmissionThreat(factorSignificance),
         submissionDefensiveResilience |->
            determineSubmissionDefense(factorSignificance),
         practitionerName |-> practitioner.name,
         handicappedScore |-> handicappedScore]

\* ProfileGenerator.generateProfile: the RollDynamicsProfile
generateProfile(cfg, practitioner, factors, handicappedScore) ==
    LET factorSignificance == identifySignificantFactors(cfg, factors)
    IN  [dominantTrait |-> determineDominantTrait(factorSignificance),
         likelyApproach |-> determineLikelyApproach(factorSignificance),
         keyStrengths |-> generateKeyStrengths(cfg, factorSignificance),
         keyChallenges |-> generateKeyChallenges(cfg, factorSignificance),
         controlPotential |-> determineControlPotential(factorSignificance),
         submissionOffensiveThreat |->
            determineSubmissionThreat(factorSignificance),
         submissionDefensiveResilience |->
            determineSubmissionDefense(factorSignificance),
         practitionerName |-> practitioner.name,
         handicappedScore |-> handicappedScore]

-----------------------------------------------------------------------------
(* main.js: JARApp, and forms.js: PractitionerForm *)

NoResults == [empty |-> TRUE]

\* the message shown in place of a profile while one side is empty
NoProfile == [incomplete |-> TRUE]

\* displayResults generating the profile whatever showProfile is
displayResultsAlwaysProfile(practitioner, factors, showProfile) ==
    [factors |-> factors,
     handicappedScore |-> calculateHandicappedScore(factors),
     showProfile |-> showProfile,
     profile |->
        generateProfile(calcConfig, practitioner, factors,
                        calculateHandicappedScore(factors))]

\* JARApp.displayResults: what the container of the practitioner's side
\* shows; the profile generator was given the object the calculator holds
displayResults(practitioner, factors, showProfile) ==
    [factors |-> factors,
     handicappedScore |-> calculateHandicappedScore(factors),
     showProfile |-> showProfile,
     profile |->
        IF showProfile
        THEN generateProfile(calcConfig, practitioner, factors,
                             calculateHandicappedScore(factors))
        ELSE NoProfile]

\* the callback of updateResults for side id throws
SideThrows(cfg, pr, id) ==
    /\ pr[id] # Null
    /\ Throws(calculateAllFactors(cfg, pr[id], pr[OtherSide(id)]))

\* updateResults throws: forEach stops at the first side whose callback throws
updateResultsThrows(cfg, pr) == \E id \in Sides : SideThrows(cfg, pr, id)

\* updateResults redrawing only the side that was updated: the side id whose
\* practitioner differs from the one stored before
updateResultsOneSide(cfg, pr) ==
    [id \in Sides |->
        IF pr[id] = practitioners[id] THEN results[id]
        ELSE IF pr[id] = Null THEN NoResults
        ELSE displayResults(
                pr[id],
                calculateAllFactors(cfg, pr[id], pr[OtherSide(id)]),
                pr["a"] # Null /\ pr["b"] # Null)]

\* JARApp.updateResults: both sides' containers, recomputed in the order a, b;
\* a container the loop does not reach keeps what it displays
updateResults(cfg, pr) ==
    [id \in Sides |->
        IF SideThrows(cfg, pr, "a") \/ (id = "b" /\ SideThrows(cfg, pr, "b"))
        THEN results[id]
        ELSE IF pr[id] = Null THEN NoResults
        ELSE displayResults(
                pr[id],
                calculateAllFactors(cfg, pr[id], pr[OtherSide(id)]),
                pr["a"] # Null /\ pr["b"] # Null)]

\* JARApp.updateComparison: the chart is updated only with both sides present
updateComparison(cfg, pr, chart) ==
    IF pr["a"] = Null \/ pr["b"] = Null THEN chart
    ELSE [a |-> calculateAllFactors(cfg, pr["a"], pr["b"]),
          b |-> calculateAllFactors(cfg, pr["b"], pr["a"])]

\* JARApp.handlePractitionerUpdate(id, data), as the primed state; when
\* updateResults throws, updateComparison is not reached
handlePractitionerUpdate(id, data) ==
    LET pr == [practitioners EXCEPT ![id] = data]
    IN  /\ practitioners' = pr
        /\ results' = updateResults(calcConfig, pr)
        /\ chartData' = IF updateResultsThrows(calcConfig, pr) THEN chartData
                        ELSE updateComparison(calcConfig, pr, chartData)

\* handlePractitionerUpdate(id, data) throws
handlePractitionerUpdateThrows(id, data) ==
    updateResultsThrows(calcConfig, [practitioners EXCEPT ![id] = data])

\* handleFormUpdate keeping what the form holds as its current record before
\* the record is validated
handleFormUpdateStoresFirst(id, formData) ==
    LET error == validate(PractitionerData(formData))
    IN  /\ UNCHANGED <<mgrConfig, calcConfig, storedConfig>>
        /\ currentData' =
              [currentData EXCEPT ![id] = PractitionerData(formData)]
        /\ IF error = NoError
           THEN /\ handlePractitionerUpdate(id, PractitionerData(formData))
                /\ UNCHANGED errorMessage
           ELSE /\ errorMessage' = [errorMessage EXCEPT ![id] = error]
                /\ UNCHANGED <<practitioners, results, chartData>>

\* PractitionerForm.handleFormUpdate of side id's form, formData being what
\* getFormData reads from the fields; the catch block displays the message of
\* whatever was thrown, by the constructor or by onUpdate
handleFormUpdate(id, formData) ==
    LET error == validate(PractitionerData(formData))
    IN  /\ UNCHANGED <<mgrConfig, calcConfig, storedConfig>>
        /\ IF error = NoError
           THEN /\ currentData' =
                      [currentData EXCEPT ![id] = PractitionerData(formData)]
                /\ handlePractitionerUpdate(id, PractitionerData(formData))
                /\ errorMessage' =
                      IF handlePractitionerUpdateThrows(
                             id, PractitionerData(formData))
                      THEN [errorMessage EXCEPT
                               ![id] = [field |-> "TypeError", got |-> 0]]
                      ELSE errorMessage
           ELSE /\ errorMessage' = [errorMessage EXCEPT ![id] = error]
                /\ UNCHANGED <<practitioners, currentData, results, chartData>>

\* PractitionerForm.loadData(data) of side id's form
loadData(id, data) ==
    LET error == validate(PractitionerData(data))
    IN  /\ UNCHANGED <<mgrConfig, calcConfig, storedConfig>>
        /\ IF error = NoError
           THEN /\ currentData' =
                      [currentData EXCEPT ![id] = PractitionerData(data)]
                /\ handlePractitionerUpdate(id, PractitionerData(data))
                /\ errorMessage' =
                      IF handlePractitionerUpdateThrows(
                             id, PractitionerData(data))
                      THEN [errorMessage EXCEPT
                               ![id] =
                                   [field |-> "Error loading practitioner data",
                                    got |-> 0]]
                      ELSE errorMessage
           ELSE /\ errorMessage' =
                      [errorMessage EXCEPT
                          ![id] = [field |-> "Error loading practitioner data",
                                   got |-> 0]]
                /\ UNCHANGED <<practitioners, currentData, results, chartData>>

\* the 3000 ms timer of showValidationError removes the message
errorTimeout(id) ==
    /\ errorMessage[id] # NoError
    /\ errorMessage' = [errorMessage EXCEPT ![id] = NoError]
    /\ UNCHANGED <<mgrConfig, calcConfig, storedConfig, practitioners,
                   currentData, results, chartData>>

\* ConfigManager.saveConfig(newConfig) on the calculator's manager
saveConfig(newConfig) ==
    /\ mgrConfig' = newConfig
    /\ storedConfig' = newConfig
    /\ UNCHANGED <<calcConfig, practitioners, currentData, results, chartData,
                   errorMessage>>

\* new JARApp(): the calculator's manager loads the default configuration and
\* the calculator keeps what getConfig() returns
Init ==
    /\ mgrConfig = loadConfig
    /\ calcConfig = loadConfig
    /\ storedConfig = Missing
    /\ practitioners = [id \in Sides |-> Null]
    /\ currentData = [id \in Sides |-> Null]
    /\ results = [id \in Sides |-> NoResults]
    /\ chartData = Null
    /\ errorMessage = [id \in Sides |-> NoError]

-----------------------------------------------------------------------------
(* Inputs *)

\* what getFormData returns for side id
FormData(id, belt, age, weight, fitness, art, sessions, comp) ==
    [name |-> "",
     bjjBeltRank |-> belt,
     ageYears |-> age,
     weightLbs |-> weight,
     standardizedFitnessTestPercentileEstimate |-> fitness,
     otherGrapplingArtExperience |->
        << [artName |-> art[1], experienceLevel |-> art[2]] >>,
     bjjTrainingSessionsPerWeek |-> sessions,
     bjjCompetitionExperienceLevel |-> comp,
     practitionerId |-> id]

\* the form as it is first rendered, with one field changed
DefaultForm(id) ==
    FormData(id, "White", 25, 170, 50, <<"None", "None">>, 3, "None")

\* a replacement configuration with other tables
AltConfig ==
    [DefaultConfig EXCEPT
        !.belt_rank_scores =
            ("White" :> 120 @@ "Blue" :> 240 @@ "Purple" :> 400
             @@ "Brown" :> 600 @@ "Black" :> 900),
        !.age_factor_config.youthful_factor_multiplier = Pct(105),
        !.weight_factor_config.thresholds_bonuses_penalties =
            << [diff_max_lbs |-> 20, adjustment |-> Pct(5)] >>]

\* a replacement configuration without its weight table
IncompleteConfig == [DefaultConfig EXCEPT !.weight_factor_config = Missing]

ReplacementConfigs == {DefaultConfig, AltConfig, IncompleteConfig}

\* the forms as filled in: five practitioners that differ in every field,
\* one with the age field left empty (parseFloat gives NaN), one with an age
\* below the range and one with a weight above it
AppForms(id) ==
    {FormData(id, "White", 30, 170, 50, <<"None", "None">>, 3, "None"),
     FormData(id, "Purple", 28, 180, 75, <<"None", "None">>, 4,
              "Limited Local"),
     FormData(id, "Blue", 20, 160, 90, <<"Wrestling", "College D1">>, 5,
              "Regular Regional"),
     FormData(id, "Black", 45, 230, 96, <<"Judo", "Olympic">>, 6,
              "National/International"),
     FormData(id, "Brown", 60, 150, 20,
              <<"Sambo", "Club Level (1-3 years)">>, 1, "None"),
     [DefaultForm(id) EXCEPT !.ageYears = NaN],
     [DefaultForm(id) EXCEPT !.ageYears = MinAge - 1],
     [DefaultForm(id) EXCEPT !.weightLbs = MaxWeight + 1]}

\* records handed to loadData: any belt label, any numbers
StoredRecords(id) ==
    {[DefaultForm(id) EXCEPT !.bjjBeltRank = "Red"],
     [DefaultForm(id) EXCEPT
        !.standardizedFitnessTestPercentileEstimate = MaxFitness + 1]}

FormUpdate == \E id \in Sides : \E fd \in AppForms(id) : handleFormUpdate(id, fd)

LoadData == \E id \in Sides : \E d \in StoredRecords(id) : loadData(id, d)

ErrorTimeout == \E id \in Sides : errorTimeout(id)

SaveConfig == \E c \in ReplacementConfigs : saveConfig(c)

Next == FormUpdate \/ LoadData \/ ErrorTimeout \/ SaveConfig

Spec == Init /\ [][Next]_vars

-----------------------------------------------------------------------------
(* The weight factor: both forms filled in, the weights varied *)

WeightSpan == 50

FarSpan == 2

\* the light end of the valid range, pound by pound, and its heavy end
WeightSet ==
    {w \in MinWeight..MaxWeight :
        w <= MinWeight + WeightSpan \/ w >= MaxWeight - FarSpan}

\* side a is entered at the ends of the set, side b at every weight of it
WeightsEntered(id) ==
    IF id = "a" THEN {MinWeight, MinWeight + WeightSpan, MaxWeight}
    ELSE WeightSet

WeightUpdate ==
    \E id \in Sides : \E w \in WeightsEntered(id) :
        handleFormUpdate(id, [DefaultForm(id) EXCEPT !.weightLbs = w])

SpecWF == Init /\ [][WeightUpdate]_vars

BothPresent == practitioners["a"] # Null /\ practitioners["b"] # Null

WeightOf(id) == practitioners[id].weightLbs

WfOf(id) == results[id].factors.wf

\* C1: of two practitioners with different weights the heavier one's weight
\* factor is above 1.0, the lighter one's is below 1.0, and the two are
\* equally far from 1.0
C1_WfSymmetric ==
    BothPresent =>
        \A h \in Sides :
            WeightOf(h) > WeightOf(OtherSide(h)) =>
                /\ WfOf(h) > One
                /\ WfOf(OtherSide(h)) < One
                /\ WfOf(h) - One = One - WfOf(OtherSide(h))

\* a difference beyond the last tier, displayed for both sides
C1_Witness ==
    /\ BothPresent
    /\ WeightOf("a") - WeightOf("b") > 45
    /\ WfOf("a") > Pct(124)
    /\ WfOf("b") < Pct(76)

\* C2: the weight factor is exactly 1.0 with no comparison practitioner, and
\* for both sides when the two weights are equal
C2_WfNeutral ==
    \A id \in Sides :
        practitioners[id] # Null =>
            /\ practitioners[OtherSide(id)] = Null => WfOf(id) = One
            /\ (BothPresent /\ WeightOf("a") = WeightOf("b")) => WfOf(id) = One

\* both sides present with the same weight, after one side stood alone
C2_Witness ==
    /\ BothPresent
    /\ WeightOf("a") = WeightOf("b")
    /\ WeightOf("a") = MinWeight + WeightSpan
    /\ WfOf("a") = One
    /\ WfOf("b") = One

\* the pounds of a difference d that fall between lo and hi
C3_PoundsIn(d, lo, hi) ==
    IF d <= lo THEN 0 ELSE IF d >= hi THEN hi - lo ELSE d - lo

\* the sum, over the tiers up to tier n, of (pounds in the tier / increment)
\* times the tier's adjustment
RECURSIVE C3_TierSum(_, _, _)
C3_TierSum(wc, d, n) ==
    IF n = 0 THEN 0
    ELSE
        LET tiers == wc.thresholds_bonuses_penalties
            lo == IF n = 1 THEN 0 ELSE tiers[n - 1].diff_max_lbs
        IN  C3_TierSum(wc, d, n - 1)
            + RoundDiv(C3_PoundsIn(d, lo, tiers[n].diff_max_lbs)
                       * tiers[n].adjustment, wc.increment_lbs)

\* C3: up to the last tier's diff_max_lbs the adjustment is the sum of the
\* tiers' shares; 15 lb gives 0.06, 30 lb gives 0.14 and 45 lb gives 0.24
C3_TieredAdjustment ==
    BothPresent =>
        \A h \in Sides :
            LET wc == calcConfig.weight_factor_config
                tiers == wc.thresholds_bonuses_penalties
                d == WeightOf(h) - WeightOf(OtherSide(h))
            IN  (d > 0 /\ d <= tiers[Len(tiers)].diff_max_lbs) =>
                    /\ WfOf(h) = One + C3_TierSum(wc, d, Len(tiers))
                    /\ WfOf(OtherSide(h)) = One - C3_TierSum(wc, d, Len(tiers))
                    /\ d = 15 => (WfOf(h) = Pct(106)
                                  /\ WfOf(OtherSide(h)) = Pct(94))
                    /\ d = 30 => WfOf(h) = Pct(114)
                    /\ d = 45 => WfOf(h) = Pct(124)

\* a 45 lb difference: all three tiers consumed
C3_Witness ==
    /\ BothPresent
    /\ WeightOf("b") - WeightOf("a") = 45
    /\ WfOf("b") = Pct(124)
    /\ WfOf("a") = Pct(76)

-----------------------------------------------------------------------------
(* The age factor: both forms filled in, the ages varied over 16..90 *)

PeakAge == DefaultConfig.age_factor_config.peak_age_years

\* side a is entered at every valid age, side b around the peak and at the ends
AgesEntered(id) ==
    IF id = "a" THEN MinAge..MaxAge
    ELSE {MinAge, PeakAge - 1, PeakAge, PeakAge + 10, MaxAge}

AgeUpdate ==
    \E id \in Sides : \E g \in AgesEntered(id) :
        handleFormUpdate(id, [DefaultForm(id) EXCEPT !.ageYears = g])

SpecAF == Init /\ [][AgeUpdate]_vars

AgeOf(id) == practitioners[id].ageYears

AfOf(id) == results[id].factors.af

\* the age factor of the same practitioner at another age
AfAt(id, age) ==
    calculateAF(calcConfig, [practitioners[id] EXCEPT !.ageYears = age])

\* C4: below the peak age the age factor is the youthful multiplier; from the
\* peak on it is (1 - rate) ^ ((age - peak) / 10): 1.0 at the peak, (1 - rate)
\* times its value ten years earlier, and never rising with age up to 90
C4_AgeFactor ==
    LET ac == calcConfig.age_factor_config
        peak == ac.peak_age_years
    IN  /\ \A id \in Sides :
            practitioners[id] # Null =>
                /\ AgeOf(id) < peak => AfOf(id) = ac.youthful_factor_multiplier
                /\ AgeOf(id) = peak => AfOf(id) = One
                /\ AgeOf(id) >= peak + 10 =>
                      LET exact == AfAt(id, AgeOf(id) - 10)
                                   * (One - ac.power_decline_rate_per_decade)
                      IN  /\ AfOf(id) * One <= exact + One
                          /\ AfOf(id) * One >= exact - One
                /\ (AgeOf(id) >= peak /\ AgeOf(id) < MaxAge) =>
                      AfAt(id, AgeOf(id) + 1) <= AfOf(id)
        /\ BothPresent =>
              \A id \in Sides :
                  (peak <= AgeOf(id) /\ AgeOf(id) <= AgeOf(OtherSide(id))) =>
                      AfOf(id) >= AfOf(OtherSide(id))

\* one side a decade and a half past the peak, the other a decade past it
C4_Witness ==
    /\ BothPresent
    /\ AgeOf("a") = PeakAge + 15
    /\ AgeOf("b") = PeakAge + 10
    /\ AfOf("b") = Pct(88)
    /\ AfOf("a") < AfOf("b")

\* x ^ 10 in fixed point
FixPow10(x) ==
    LET x2 == FixTimes(x, x)
        x4 == FixTimes(x2, x2)
        x8 == FixTimes(x4, x4)
    IN  FixTimes(x8, x2)

\* one year of the default decline: the multiplier r with r ^ 10 = 1 - rate
OneYearDecay ==
    LET target == One - DefaultConfig.age_factor_config
                            .power_decline_rate_per_decade
    IN  CHOOSE r \in 1..One : FixPow10(r) <= target /\ FixPow10(r + 1) > target

\* the factor a year later is no further below than one year of decay
C5_WithinOneYear(id) ==
    AfAt(id, AgeOf(id) + 1) * One >= AfOf(id) * OneYearDecay - One

\* C5 as claimed: between any two valid ages one year apart, the step across
\* the peak age included, the age factor falls by no more than one year of
\* decay
C5_NoJumpAnywhere ==
    \A id \in Sides :
        (practitioners[id] # Null /\ AgeOf(id) < MaxAge) =>
            C5_WithinOneYear(id)

\* C5 amended: between two valid ages one year apart the age factor falls by
\* no more than one year of decay, except across the peak age, where it falls
\* from the youthful multiplier to 1.0, which is more
C5_NoJumpButAtPeak ==
    LET ac == calcConfig.age_factor_config
    IN  \A id \in Sides :
            (practitioners[id] # Null /\ AgeOf(id) < MaxAge) =>
                IF AgeOf(id) = ac.peak_age_years - 1
                THEN /\ AfOf(id) = ac.youthful_factor_multiplier
                     /\ AfAt(id, AgeOf(id) + 1) = One
                     /\ ~C5_WithinOneYear(id)
                ELSE C5_WithinOneYear(id)

\* the two sides of the peak-age boundary, displayed side by side
C5_Witness ==
    /\ BothPresent
    /\ AgeOf("a") = PeakAge - 1
    /\ AgeOf("b") = PeakAge
    /\ AfOf("a") = Pct(103)
    /\ AfOf("b") = One

-----------------------------------------------------------------------------
(* The page as a whole: Spec *)

\* C6: the score displayed for a practitioner is brs * af * wf * acf * ref *
\* tff * cef, each of the seven being what its own operation returns for that
\* practitioner (the weight factor against the other side); a NaN among them
\* makes the product NaN
C6_ScoreIsProduct ==
    \A id \in Sides :
        results[id] # NoResults =>
            LET p == practitioners[id]
                o == practitioners[OtherSide(id)]
                f == results[id].factors
            IN  /\ f.brs = calculateBRS(calcConfig, p)
                /\ f.af = calculateAF(calcConfig, p)
                /\ f.wf = calculateWF(calcConfig, p, o)
                /\ f.acf = calculateACF(calcConfig, p)
                /\ f.ref = calculateREF(calcConfig, p)
                /\ f.tff = calculateTFF(calcConfig, p)
                /\ f.cef = calculateCEF(calcConfig, p)
                /\ results[id].handicappedScore =
                      FixTimes(FixTimes(FixTimes(FixTimes(FixTimes(
                          IntTimes(ToNumber(f.brs), f.af),
                          f.wf), f.acf), f.ref), f.tff), f.cef)

\* the Blue belt wrestler against the heavier Black belt: no factor is 1.0
C6_Witness ==
    /\ BothPresent
    /\ practitioners["a"].bjjBeltRank = "Blue"
    /\ practitioners["b"].bjjBeltRank = "Black"
    /\ results["a"].factors =
          [brs |-> 200, af |-> Pct(103),
           wf |-> One - (Pct(24) + (25 * Pct(10)) \div 15),
           acf |-> Pct(115), ref |-> Pct(122), tff |-> Pct(105),
           cef |-> Pct(108)]
    /\ results["a"].handicappedScore > 0

\* C7: a belt rank that is no key of the belt table is a fault of the
\* calculation: nothing is displayed for that practitioner
C7_UnknownBeltIsFault ==
    \A id \in Sides :
        (practitioners[id] # Null
         /\ practitioners[id].bjjBeltRank
                \notin DOMAIN calcConfig.belt_rank_scores) =>
            results[id] = NoResults

InRange(x, lo, hi) == x # NaN /\ lo <= x /\ x <= hi

\* C8: a PractitionerData exists only with its four bounded fields in range;
\* a value that is not a number is outside every range
C8_ConstructedInRange ==
    \A id \in Sides :
        currentData[id] # Null =>
            /\ InRange(currentData[id].ageYears, MinAge, MaxAge)
            /\ InRange(currentData[id].weightLbs, MinWeight, MaxWeight)
            /\ InRange(currentData[id].standardizedFitnessTestPercentileEstimate,
                       MinFitness, MaxFitness)
            /\ InRange(currentData[id].bjjTrainingSessionsPerWeek,
                       MinSessions, MaxSessions)

\* C9: getConfig returns what saveConfig was given, and a practitioner update
\* made after a replacement is calculated with the replacement's tables
C9_ReplacedConfigUsed ==
    [][/\ (mgrConfig' # mgrConfig) => (getConfig' = storedConfig')
       /\ \A id \in Sides :
            (practitioners'[id] # practitioners[id]
             /\ MissingSubTables(mgrConfig') = {}) =>
                results'[id] = updateResults(mgrConfig', practitioners')[id]
      ]_vars

\* C10: a replacement that lacks a sub-table is rejected, so the active
\* configuration always has every sub-table
C10_IncompleteRejected == MissingSubTables(getConfig) = {}

-----------------------------------------------------------------------------
(* The calculator under other configurations: SpecCalc *)

\* a band list that leaves percentiles 30..59 uncovered
GappedAcfConfig ==
    [DefaultConfig EXCEPT
        !.acf_config.levels =
            << [level_id |-> 1, multiplier |-> Pct(90)],
               [level_id |-> 3, multiplier |-> Pct(107)],
               [level_id |-> 4, multiplier |-> Pct(115)],
               [level_id |-> 5, multiplier |-> Pct(125)] >>]

\* a band list that leaves 2 and 3 sessions a week uncovered
GappedTffConfig ==
    [DefaultConfig EXCEPT
        !.tff_config.levels =
            << [sessions_min |-> 0, sessions_max |-> 1, multiplier |-> Pct(95)],
               [sessions_min |-> 4, sessions_max |-> 5, multiplier |-> Pct(105)],
               [sessions_min |-> 6, sessions_max |-> 100,
                multiplier |-> Pct(110)] >>]

\* a level list without any level
NoRefLevelsConfig == [DefaultConfig EXCEPT !.ref_config.levels = << >>]

\* the competition levels listed from the highest down
ReorderedCefConfig ==
    [DefaultConfig EXCEPT
        !.cef_config.levels =
            << [level_id |-> 3, multiplier |-> Pct(112)],
               [level_id |-> 2, multiplier |-> Pct(108)],
               [level_id |-> 1, multiplier |-> Pct(103)],
               [level_id |-> 0, multiplier |-> Pct(100)] >>]

MultiplierTables ==
    {"age_factor_config", "weight_factor_config", "acf_config", "ref_config",
     "tff_config", "cef_config"}

\* the configurations a calculator is run with: the default one, one without
\* each multiplier sub-table, and the ones with incomplete lists
CalcConfigs ==
    {DefaultConfig, AltConfig, GappedAcfConfig, GappedTffConfig,
     NoRefLevelsConfig, ReorderedCefConfig}
    \cup {[DefaultConfig EXCEPT ![t] = Missing] : t \in MultiplierTables}

\* valid practitioners: in the gaps of the gapped lists and outside them, one
\* with a competition label no mapping has
CalcForms(id) ==
    {FormData(id, "White", 30, 170, 45, <<"None", "None">>, 3, "None"),
     FormData(id, "Blue", 35, 200, 60, <<"None", "None">>, 2, "Professional"),
     FormData(id, "Purple", 24, 185, 75, <<"Judo", "National">>, 4,
              "Limited Local"),
     FormData(id, "Black", 45, 230, 96, <<"Wrestling", "College">>, 6,
              "National/International")}

\* a calculator whose configuration is cfg, in a page as new JARApp() leaves it
InitCalc ==
    /\ calcConfig \in CalcConfigs
    /\ mgrConfig = calcConfig
    /\ storedConfig = Missing
    /\ practitioners = [id \in Sides |-> Null]
    /\ currentData = [id \in Sides |-> Null]
    /\ results = [id \in Sides |-> NoResults]
    /\ chartData = Null
    /\ errorMessage = [id \in Sides |-> NoError]

CalcUpdate ==
    \E id \in Sides : \E fd \in CalcForms(id) : handleFormUpdate(id, fd)

SpecCalc == InitCalc /\ [][CalcUpdate]_vars

CompOf(id) == practitioners[id].bjjCompetitionExperienceLevel

\* the percentile is in none of the configured athleticism bands
AcfUncovered(cfg, p) ==
    \A i \in 1..Len(cfg.acf_config.levels) :
        ~InAcfRange(cfg.acf_config.levels[i].level_id,
                    p.standardizedFitnessTestPercentileEstimate)

\* the session count is in none of the configured training bands
TffUncovered(cfg, p) ==
    \A i \in 1..Len(cfg.tff_config.levels) :
        ~(/\ p.bjjTrainingSessionsPerWeek >= cfg.tff_config.levels[i].sessions_min
          /\ p.bjjTrainingSessionsPerWeek <= cfg.tff_config.levels[i].sessions_max)

\* C11: whatever the configuration lacks, each of the six multiplier
\* operations returns for a valid practitioner, and returns 1.0 where the
\* configuration has no sub-table or no band for the input
C11_MultipliersNeverThrow ==
    \A id \in Sides :
        practitioners[id] # Null =>
            LET p == practitioners[id]
                o == practitioners[OtherSide(id)]
                cfg == calcConfig
            IN  /\ calculateAF(cfg, p) # TypeError
                /\ calculateWF(cfg, p, o) # TypeError
                /\ calculateACF(cfg, p) # TypeError
                /\ calculateREF(cfg, p) # TypeError
                /\ calculateTFF(cfg, p) # TypeError
                /\ calculateCEF(cfg, p) # TypeError
                /\ cfg.age_factor_config = Missing => calculateAF(cfg, p) = One
                /\ cfg.weight_factor_config = Missing =>
                      calculateWF(cfg, p, o) = One
                /\ (cfg.acf_config = Missing \/ AcfUncovered(cfg, p)) =>
                      calculateACF(cfg, p) = One
                /\ (cfg.tff_config = Missing \/ TffUncovered(cfg, p)) =>
                      calculateTFF(cfg, p) = One

-----------------------------------------------------------------------------
(* The band lists: every percentile and every session count entered *)

\* side a is entered with every percentile and every session count, side b
\* with two percentiles
BandForms(id) ==
    IF id = "a"
    THEN {[DefaultForm(id) EXCEPT
              !.standardizedFitnessTestPercentileEstimate = f] :
              f \in MinFitness..MaxFitness}
         \cup {[DefaultForm(id) EXCEPT !.bjjTrainingSessionsPerWeek = n] :
                  n \in MinSessions..MaxSessions}
    ELSE {[DefaultForm(id) EXCEPT
              !.standardizedFitnessTestPercentileEstimate = f] : f \in {50, 75}}

BandUpdate ==
    \E id \in Sides : \E fd \in BandForms(id) : handleFormUpdate(id, fd)

SpecBands == Init /\ [][BandUpdate]_vars

FitnessOf(id) == practitioners[id].standardizedFitnessTestPercentileEstimate

SessionsOf(id) == practitioners[id].bjjTrainingSessionsPerWeek

\* the athleticism bands of the configuration that contain the percentile
C12_AcfBands(cfg, f) ==
    {i \in 1..Len(cfg.acf_config.levels) :
        InAcfRange(cfg.acf_config.levels[i].level_id, f)}

\* the training bands of the configuration that contain the session count
C12_TffBands(cfg, n) ==
    {i \in 1..Len(cfg.tff_config.levels) :
        /\ n >= cfg.tff_config.levels[i].sessions_min
        /\ n <= cfg.tff_config.levels[i].sessions_max}

\* C12: under the default configuration every percentile 0..100 is in exactly
\* one athleticism band and every session count 0..14 in exactly one training
\* band, and the factor displayed is that band's multiplier: 0-1 sessions
\* 0.95, 2-3 1.00, 4-5 1.05, 6 and more 1.10; percentile 50 1.00, 75 1.07
C12_BandsExhaustive ==
    \A id \in Sides :
        practitioners[id] # Null =>
            LET acfBands == C12_AcfBands(calcConfig, FitnessOf(id))
                tffBands == C12_TffBands(calcConfig, SessionsOf(id))
                n == SessionsOf(id)
            IN  /\ Cardinality(acfBands) = 1
                /\ Cardinality(tffBands) = 1
                /\ \A i \in acfBands :
                      results[id].factors.acf =
                          calcConfig.acf_config.levels[i].multiplier
                /\ \A i \in tffBands :
                      results[id].factors.tff =
                          calcConfig.tff_config.levels[i].multiplier
                /\ results[id].factors.tff =
                      (IF n <= 1 THEN Pct(95) ELSE IF n <= 3 THEN Pct(100)
                       ELSE IF n <= 5 THEN Pct(105) ELSE Pct(110))
                /\ FitnessOf(id) = 50 => results[id].factors.acf = Pct(100)
                /\ FitnessOf(id) = 75 => results[id].factors.acf = Pct(107)

\* the last session count of a band on one side, percentile 75 on the other
C12_Witness ==
    /\ BothPresent
    /\ SessionsOf("a") = 5
    /\ results["a"].factors.tff = Pct(105)
    /\ FitnessOf("b") = 75
    /\ results["b"].factors.acf = Pct(107)

\* the multiplier of the athleticism level with this level_id
C13_LevelMultiplier(cfg, levelId) ==
    LevelMultiplier(cfg.acf_config.levels, levelId, Undefined)

-----------------------------------------------------------------------------
(* Other grappling arts: records with no, one and several entries loaded *)

MaxArts == 2

\* entries of the mapping, an art the mapping lacks, and a level of another
\* art's scale
ArtEntries ==
    {[artName |-> "Wrestling", experienceLevel |-> "College D1"],
     [artName |-> "Judo", experienceLevel |-> "Local"],
     [artName |-> "None", experienceLevel |-> "None"],
     [artName |-> "Catch Wrestling", experienceLevel |-> "Professional"],
     [artName |-> "Wrestling", experienceLevel |-> "Olympic"]}

\* side a is loaded with every list of up to MaxArts entries, side b with a
\* record without entries, one with a wrestler's and one with an unknown art's
ArtRecords(id) ==
    IF id = "a"
    THEN {[DefaultForm(id) EXCEPT !.otherGrapplingArtExperience = arts] :
              arts \in UNION {[1..n -> ArtEntries] : n \in 0..MaxArts}}
    ELSE {[DefaultForm(id) EXCEPT !.otherGrapplingArtExperience = arts] :
              arts \in {<< >>,
                        <<[artName |-> "Wrestling",
                           experienceLevel |-> "College D1"]>>,
                        <<[artName |-> "Catch Wrestling",
                           experienceLevel |-> "Professional"]>>}}

ArtsLoad == \E id \in Sides : \E d \in ArtRecords(id) : loadData(id, d)

SpecArts == Init /\ [][ArtsLoad]_vars

ArtsOf(id) == practitioners[id].otherGrapplingArtExperience

\* the multiplier of the experience level with this level_id
C14_LevelOf(cfg, levelId) ==
    LET levels == cfg.ref_config.levels
    IN  levels[CHOOSE i \in 1..Len(levels) : levels[i].level_id = levelId]
            .multiplier

\* C14: without entries the experience factor is the level-0 multiplier; with
\* entries it is what the first entry alone gives: the multiplier of the
\* level its key is mapped to, or the level-0 multiplier for a key the mapping
\* lacks; the entries after the first change nothing
C14_FirstEntryOnly ==
    \A id \in Sides :
        practitioners[id] # Null =>
            LET arts == ArtsOf(id)
                rc == calcConfig.ref_config
                key == MappingKey(arts[1].artName, arts[1].experienceLevel)
                ref == results[id].factors.ref
            IN  IF Len(arts) = 0 THEN ref = C14_LevelOf(calcConfig, 0)
                ELSE /\ ref = (IF key \in DOMAIN rc.art_experience_level_mapping
                               THEN C14_LevelOf(
                                       calcConfig,
                                       rc.art_experience_level_mapping[key])
                               ELSE C14_LevelOf(calcConfig, 0))
                     /\ ref = calculateREF(
                                 calcConfig,
                                 [practitioners[id] EXCEPT
                                     !.otherGrapplingArtExperience =
                                         <<arts[1]>>])
                     /\ key = "Wrestling_College D1" => ref = Pct(122)

\* a Judo beginner who also wrestled in college: only Judo counts
C14_Witness ==
    /\ practitioners["a"] # Null
    /\ Len(ArtsOf("a")) = 2
    /\ ArtsOf("a")[1] = [artName |-> "Judo", experienceLevel |-> "Local"]
    /\ ArtsOf("a")[2] =
          [artName |-> "Wrestling", experienceLevel |-> "College D1"]
    /\ results["a"].factors.ref = Pct(103)

\* C15: under every configuration a competition label that the mapping lacks
\* gives the competition factor that the label "None" gives
C15_UnknownLabelAsNone ==
    \A id \in Sides :
        (/\ practitioners[id] # Null
         /\ calcConfig.cef_config # Missing
         /\ CompOf(id) \notin DOMAIN calcConfig.cef_config
                                        .competition_level_mapping) =>
            calculateCEF(calcConfig, practitioners[id]) =
                calculateCEF(calcConfig,
                             [practitioners[id] EXCEPT
                                 !.bjjCompetitionExperienceLevel = "None"])

-----------------------------------------------------------------------------
(* The profiles: both forms filled in, every field varied *)

\* side a is entered with both sides of every classification: belts below and
\* at Purple, athleticism and training multipliers at, between and beyond the
\* thresholds, experience, weight, age and competition on both sides of them;
\* side b with three weights and with one of the practitioners of side a
ProfileForms(id) ==
    IF id = "a"
    THEN {FormData(id, belt, ac[1], weight, ft[1], art, ft[2], ac[2]) :
              belt \in {"Blue", "Purple"},
              ft \in {<<20, 6>>, <<50, 3>>, <<85, 1>>},
              art \in {<<"None", "None">>, <<"Wrestling", "College">>},
              weight \in {150, 180, 210},
              ac \in {<<30, "None">>, <<40, "None">>,
                       <<30, "National/International">>}}
    ELSE {[DefaultForm(id) EXCEPT !.weightLbs = w] : w \in {157, 158, 180}}
         \cup {FormData(id, "Blue", 30, 180, 50, <<"None", "None">>, 3,
                        "None")}

ProfileUpdate ==
    \E id \in Sides : \E fd \in ProfileForms(id) : handleFormUpdate(id, fd)

SpecProfile == Init /\ [][ProfileUpdate]_vars

\* side id displays a profile
ProfileShown(id) == results[id] # NoResults /\ results[id].showProfile

\* the classification generateProfile made for side id
SignificanceOf(id) ==
    identifySignificantFactors(calcConfig, results[id].factors)

\* C16: each of the six multipliers is 'high' exactly when it is at least the
\* high threshold, 'low' exactly when it is at most the low threshold and not
\* high, 'neutral' otherwise; the base score is 'high' exactly when it is at
\* least the Purple belt's score and 'low' otherwise
C16_Classification ==
    \A id \in Sides :
        ProfileShown(id) =>
            LET f == results[id].factors
                sig == SignificanceOf(id)
                dc == calcConfig.profile_dynamics_config
                hi == dc.significant_multiplier_threshold_high
                lo == dc.significant_multiplier_threshold_low
            IN  /\ \A x \in {"af", "wf", "acf", "ref", "tff", "cef"} :
                      /\ sig[x] = "high" <=> f[x] >= hi
                      /\ sig[x] = "low" <=> (f[x] <= lo /\ f[x] < hi)
                      /\ sig[x] = "neutral" <=> (f[x] > lo /\ f[x] < hi)
                /\ sig.brs = "high" <=>
                      f.brs >= calcConfig.belt_rank_scores["Purple"]
                /\ sig.brs = "low" <=>
                      f.brs < calcConfig.belt_rank_scores["Purple"]

\* a Purple belt whose training factor is the high threshold itself and whose
\* athleticism factor is the low threshold itself
C16_Witness ==
    /\ ProfileShown("a")
    /\ results["a"].factors.brs = 350
    /\ results["a"].factors.tff = Pct(110)
    /\ results["a"].factors.acf = Pct(90)
    /\ SignificanceOf("a").tff = "high"
    /\ SignificanceOf("a").acf = "low"
    /\ SignificanceOf("a").brs = "high"

\* one of the weight, athleticism and experience factors is classified high
AnyOfThreeHigh(id) ==
    \/ SignificanceOf(id).wf = "high"
    \/ SignificanceOf(id).acf = "high"
    \/ SignificanceOf(id).ref = "high"

BrsHigh(id) == SignificanceOf(id).brs = "high"

\* C17: the dominant trait is 'Technical BJJ Specialist' for a high base score
\* with none of weight, athleticism and experience high, 'Physical Grappling
\* Athlete' for a low base score with one of them high, 'Dominant
\* All-Rounder' for a high base score with one of them high, and 'Balanced
\* Practitioner' otherwise: always one of the four labels
C17_DominantTrait ==
    \A id \in Sides :
        ProfileShown(id) =>
            LET trait == results[id].profile.dominantTrait
            IN  /\ trait \in {"Technical BJJ Specialist",
                              "Physical Grappling Athlete",
                              "Dominant All-Rounder", "Balanced Practitioner"}
                /\ (BrsHigh(id) /\ ~AnyOfThreeHigh(id)) =>
                      trait = "Technical BJJ Specialist"
                /\ (~BrsHigh(id) /\ AnyOfThreeHigh(id)) =>
                      trait = "Physical Grappling Athlete"
                /\ (BrsHigh(id) /\ AnyOfThreeHigh(id)) =>
                      trait = "Dominant All-Rounder"
                /\ (~BrsHigh(id) /\ ~AnyOfThreeHigh(id)) =>
                      trait = "Balanced Practitioner"

\* a Purple belt with college wrestling: the third rule of the table
C17_Witness ==
    /\ ProfileShown("a")
    /\ results["a"].factors.brs = 350
    /\ results["a"].factors.ref = Pct(112)
    /\ results["a"].profile.dominantTrait = "Dominant All-Rounder"

\* C18: the likely approach is 'Technical & Opportunistic' for a high base
\* score with a weight factor that is not high, whatever athleticism and
\* experience are; otherwise 'Pressure & Control-Oriented' when one of weight,
\* athleticism and experience is high; otherwise 'Adaptable & Balanced'
C18_LikelyApproach ==
    \A id \in Sides :
        ProfileShown(id) =>
            LET approach == results[id].profile.likelyApproach
                technical == BrsHigh(id) /\ SignificanceOf(id).wf # "high"
            IN  /\ technical => approach = "Technical & Opportunistic"
                /\ (~technical /\ AnyOfThreeHigh(id)) =>
                      approach = "Pressure & Control-Oriented"
                /\ (~technical /\ ~AnyOfThreeHigh(id)) =>
                      approach = "Adaptable & Balanced"

\* a Purple belt with high athleticism and experience, not the heavier one
C18_Witness ==
    /\ ProfileShown("a")
    /\ results["a"].factors.brs = 350
    /\ results["a"].factors.acf = Pct(115)
    /\ results["a"].factors.ref = Pct(112)
    /\ results["a"].factors.wf = One
    /\ results["a"].profile.likelyApproach = "Technical & Opportunistic"

\* the statement of the configuration when the condition holds
C19_When(condition, key) ==
    IF condition
    THEN <<calcConfig.profile_dynamics_config.implication_statements[key]>>
    ELSE << >>

\* C19: the key strengths are the configured statements for a high base
\* score, high experience, high athleticism and high weight, in this order,
\* each one there exactly when its classification is high; when none is
\* there the list is the one default statement and nothing else
C19_KeyStrengths ==
    \A id \in Sides :
        ProfileShown(id) =>
            LET sig == SignificanceOf(id)
                configured ==
                    C19_When(sig.brs = "high", "BRS_high")
                    \o C19_When(sig.ref = "high", "REF_high_wrestling_judo")
                    \o C19_When(sig.acf = "high", "ACF_high")
                    \o C19_When(sig.wf = "high", "WF_high")
                strengths == results[id].profile.keyStrengths
            IN  /\ Len(strengths) >= 1
                /\ configured # << >> => strengths = configured
                /\ configured = << >> =>
                      strengths =
                          <<"Well-rounded BJJ skills with balanced attributes">>

\* all four statements: the heavier, athletic Purple belt with wrestling
C19_Witness ==
    /\ ProfileShown("a")
    /\ Len(results["a"].profile.keyStrengths) = 4
    /\ results["a"].profile.keyStrengths[2] =
          DefaultStatements["REF_high_wrestling_judo"]
    /\ results["a"].profile.keyStrengths[3] = DefaultStatements["ACF_high"]

\* C20: the key challenges are the configured statements for a low base
\* score, a low age factor and a low weight factor, in this order, each one
\* there exactly when its classification is low; when none is there the list
\* is the one default statement
C20_KeyChallenges ==
    \A id \in Sides :
        ProfileShown(id) =>
            LET sig == SignificanceOf(id)
                configured ==
                    C19_When(sig.brs = "low", "BRS_low")
                    \o C19_When(sig.af = "low", "AF_low")
                    \o C19_When(sig.wf = "low", "WF_low")
                challenges == results[id].profile.keyChallenges
            IN  /\ Len(challenges) >= 1
                /\ configured # << >> => challenges = configured
                /\ configured = << >> =>
                      challenges =
                          <<"May need to adjust strategy against opponents with significant physical or technical advantages">>

\* a Purple belt of 30 at the opponent's weight: nothing low, the default alone
C20_Witness ==
    /\ ProfileShown("a")
    /\ results["a"].factors.brs = 350
    /\ results["a"].factors.wf = One
    /\ results["a"].factors.af > Pct(90)
    /\ Len(results["a"].profile.keyChallenges) = 1
    /\ results["a"].profile.keyChallenges[1]
          \notin {DefaultStatements[k] : k \in DOMAIN DefaultStatements}

\* how many of the experience, weight and athleticism factors are high
HighCountOf(id) ==
    Cardinality({x \in {"ref", "wf", "acf"} : SignificanceOf(id)[x] = "high"})

\* C21: the control potential is 'High' with two or three of experience,
\* weight and athleticism classified high, 'Medium' with exactly one,
\* 'Low' with none
C21_ControlPotential ==
    \A id \in Sides :
        ProfileShown(id) =>
            LET control == results[id].profile.controlPotential
            IN  /\ HighCountOf(id) >= 2 => control = "High"
                /\ HighCountOf(id) = 1 => control = "Medium"
                /\ HighCountOf(id) = 0 => control = "Low"

\* experience and athleticism high, the weights equal: two of the three
C21_Witness ==
    /\ ProfileShown("a")
    /\ results["a"].factors.ref = Pct(112)
    /\ results["a"].factors.acf = Pct(115)
    /\ results["a"].factors.wf = One
    /\ results["a"].profile.controlPotential = "High"

\* C22: the submission threat is 'Low' for a low base score whatever the
\* competition factor, 'High' for a high base score with a high competition
\* factor, 'Medium' for a high base score otherwise
C22_SubmissionThreat ==
    \A id \in Sides :
        ProfileShown(id) =>
            LET threat == results[id].profile.submissionOffensiveThreat
                cefHigh == SignificanceOf(id).cef = "high"
            IN  /\ ~BrsHigh(id) => threat = "Low"
                /\ (BrsHigh(id) /\ cefHigh) => threat = "High"
                /\ (BrsHigh(id) /\ ~cefHigh) => threat = "Medium"

\* a Blue belt who competes internationally: the competition factor is high
\* and the threat is low all the same
C22_Witness ==
    /\ ProfileShown("a")
    /\ results["a"].factors.brs = 200
    /\ results["a"].factors.cef = Pct(112)
    /\ SignificanceOf("a").cef = "high"
    /\ results["a"].profile.submissionOffensiveThreat = "Low"

\* C23: the submission defense is 'High' for a high base score, otherwise
\* 'Medium' for a high experience factor, otherwise 'Low'
C23_SubmissionDefense ==
    \A id \in Sides :
        ProfileShown(id) =>
            LET defense == results[id].profile.submissionDefensiveResilience
                refHigh == SignificanceOf(id).ref = "high"
            IN  /\ BrsHigh(id) => defense = "High"
                /\ (~BrsHigh(id) /\ refHigh) => defense = "Medium"
                /\ (~BrsHigh(id) /\ ~refHigh) => defense = "Low"

\* a Purple belt with college wrestling: the base score decides
C23_Witness ==
    /\ ProfileShown("a")
    /\ results["a"].factors.brs = 350
    /\ results["a"].factors.ref = Pct(112)
    /\ results["a"].profile.submissionDefensiveResilience = "High"

\* what generateProfile was called with for a displayed profile
C24_Inputs(practitioner, shown, cfg) ==
    <<practitioner.name, shown.factors, shown.handicappedScore, cfg>>

-----------------------------------------------------------------------------
(* The page as a whole, continued: Spec *)

\* C25: a side without a practitioner displays nothing; a side whose
\* practitioner stands alone displays its score and its factors, the weight
\* factor being 1.0, and the message in place of a profile; with both sides
\* set each side displays a profile
C25_ProfileOnlyWithBoth ==
    \A id \in Sides :
        /\ practitioners[id] = Null => results[id] = NoResults
        /\ (practitioners[id] # Null /\ practitioners[OtherSide(id)] = Null) =>
              /\ results[id] # NoResults
              /\ results[id].profile = NoProfile
              /\ results[id].factors.wf = One
              /\ results[id].handicappedScore =
                    calculateHandicappedScore(results[id].factors)
        /\ BothPresent =>
              /\ results[id] # NoResults
              /\ results[id].profile # NoProfile
              /\ results[id].profile.dominantTrait
                    \in {"Technical BJJ Specialist",
                         "Physical Grappling Athlete",
                         "Dominant All-Rounder", "Balanced Practitioner"}
              /\ Len(results[id].profile.keyStrengths) >= 1

\* the Black belt and the Blue belt wrestler, a profile for each
C25_Witness ==
    /\ BothPresent
    /\ practitioners["a"].bjjBeltRank = "Black"
    /\ practitioners["b"].bjjBeltRank = "Blue"
    /\ results["a"].profile # NoProfile
    /\ results["b"].profile # NoProfile
    /\ results["a"].profile.dominantTrait = "Dominant All-Rounder"
    /\ results["b"].profile.dominantTrait = "Physical Grappling Athlete"

\* C26: an update that ends in an error message leaves the form's record, the
\* stored practitioners, the results and the chart as they were; a record
\* becomes the form's current one only if it passes validation, and it is
\* then the practitioner stored for that side
C26_RejectedUpdateChangesNothing ==
    [][/\ (\E id \in Sides :
              /\ errorMessage'[id] # errorMessage[id]
              /\ errorMessage'[id] # NoError) =>
             UNCHANGED <<practitioners, currentData, results, chartData>>
       /\ \A id \in Sides :
             currentData'[id] # currentData[id] =>
                 /\ validate(currentData'[id]) = NoError
                 /\ practitioners'[id] = currentData'[id]
      ]_vars

\* an age below the range entered over a stored Purple belt: the error is
\* displayed and the Purple belt stays
C26_Witness ==
    /\ errorMessage["a"] = [field |-> "Age", got |-> MinAge - 1]
    /\ practitioners["a"] # Null
    /\ practitioners["a"].bjjBeltRank = "Purple"
    /\ currentData["a"] = practitioners["a"]
    /\ results["a"] # NoResults
    /\ results["a"].factors.brs = 350

-----------------------------------------------------------------------------
(* The weight factor, continued: SpecWF *)

ScoreOf(id) == results[id].handicappedScore

\* C27: under the default configuration both sides of every pair of valid
\* weights have a weight factor above zero and a handicapped score above zero
C27_WfPositive ==
    BothPresent =>
        \A id \in Sides :
            /\ WfOf(id) > 0
            /\ ScoreOf(id) > 0

-----------------------------------------------------------------------------
(* The profiles, continued: SpecProfile *)

\* C29: in every displayed profile the trait is 'Balanced Practitioner'
\* exactly when the approach is 'Adaptable & Balanced', the control potential
\* is 'Low' exactly when the trait is 'Technical BJJ Specialist' or 'Balanced
\* Practitioner', and the submission offense is 'Low' exactly when the
\* submission defense is not 'High'
C29_LabelsConsistent ==
    \A id \in Sides :
        ProfileShown(id) =>
            LET profile == results[id].profile
            IN  /\ profile.dominantTrait = "Balanced Practitioner"
                      <=> profile.likelyApproach = "Adaptable & Balanced"
                /\ profile.controlPotential = "Low"
                      <=> profile.dominantTrait \in
                              {"Technical BJJ Specialist",
                               "Balanced Practitioner"}
                /\ profile.submissionOffensiveThreat = "Low"
                      <=> profile.submissionDefensiveResilience # "High"

\* a Blue belt whose only high factor is college wrestling: neither balanced
\* nor adaptable, control above low, offense low and defense below high
C29_Witness ==
    /\ ProfileShown("a")
    /\ results["a"].factors.brs = 200
    /\ results["a"].factors.ref = Pct(112)
    /\ results["a"].factors.wf = One
    /\ results["a"].profile.dominantTrait = "Physical Grappling Athlete"
    /\ results["a"].profile.likelyApproach = "Pressure & Control-Oriented"
    /\ results["a"].profile.controlPotential = "Medium"
    /\ results["a"].profile.submissionOffensiveThreat = "Low"
    /\ results["a"].profile.submissionDefensiveResilience = "Medium"

\* C30: what each side with a practitioner displays is calculateAllFactors of
\* its current practitioner against the other side's current practitioner
\* (none when the other side is empty) and the score of these factors; the
\* chart of two present sides holds the same factors
C30_NoStaleOpponent ==
    /\ \A id \in Sides :
          practitioners[id] # Null =>
              LET factors ==
                      calculateAllFactors(calcConfig, practitioners[id],
                                          practitioners[OtherSide(id)])
              IN  /\ results[id] # NoResults
                  /\ results[id].factors = factors
                  /\ results[id].handicappedScore =
                        calculateHandicappedScore(factors)
    /\ BothPresent =>
          \A id \in Sides : chartData[id] = results[id].factors

\* side b was entered against a 150 lb opponent, who then became 210 lb:
\* side b, not touched since, is displayed as the lighter one
C30_Witness ==
    /\ BothPresent
    /\ WeightOf("a") = 210
    /\ WeightOf("b") = 157
    /\ WfOf("a") > One
    /\ WfOf("b") < One
    /\ WfOf("b") = One - totalAdjustment(calcConfig.weight_factor_config, 53)

====
